---- MODULE Spec2Model ----
(***************************************************************************)
(* Model of the MakerMatty_Curves library: the moving average MA<T> in its *)
(* three revisions (src/src/MakerMatty_MA.h = revision "A",                *)
(* src/unnamed/part_000 = revision "B", src/unnamed/part_001 = revision    *)
(* "C") and the exponential moving average EMA in its two revisions        *)
(* (src/src/MakerMatty_EMA.h, first class = 1, second class = 2).          *)
(*                                                                         *)
(* A value of the element type T is kept as an integer count of 1/Unit:    *)
(* Unit = 1 for an integer T, Unit = 2 for a floating T (values are        *)
(* multiples of one half, on which float arithmetic is exact).             *)
(***************************************************************************)
EXTENDS Integers, Sequences, FiniteSets, TLC

\* ---------------------------------------------------------------- bounds
MaxLen == 3          \* largest capacity requested from a constructor
MaxPush == 5         \* most updates recorded for one instance
OwnMaxLen == 1       \* largest capacity in the ownership specification
OwnMaxPush == 1      \* most updates per instance in the ownership specification
MaxEmaUpdates == 3   \* most updates of the EMA instance

\* ------------------------------------------------------ program constants
NULL == 0
SizeofT == 4
Int32Max == 2147483647
Int32Min == (-Int32Max) - 1

Revs == {"A", "B", "C"}
Objs == {1, 2}
\* heap blocks: one for each instance and one for the temporary that copy
\* assignment constructs
Addr == 1..(Cardinality(Objs) + 1)
IntVals == {-3, 1, 2}            \* values fed to an MA<int>
FloatVals == {1, 2, 4}           \* 0.5, 1.0, 2.0 fed to an MA<float>
Garbage == {0, 16777216}         \* contents of storage that was never written
EmaRevs == {1, 2}
Periods == {0, 1, 3}             \* periods for which k = 2/(n+1) is exact in a float
EmaVals == {0, 5, 10}            \* samples and seeds fed to the EMA
GarbageN == {0, 3, 7}            \* contents of an int member that was never written

VARIABLES
    rev,        \* revision of the MA class that is compiled in
    elemType,   \* the template argument T: "int" or "float"
    objs,       \* the MA instances: their data members
    heap,       \* the blocks handed out by new T[n]
    ub,         \* the undefined behaviour met so far: a subset of UBKinds
    hist,       \* per instance: the values pushed into its state since it was constructed
    steady,     \* per instance: the value of the last setValue and the updates since
    copyOf,     \* per instance: the instance it was last copied from, or 0
    last,       \* the last operation and its arguments
    born,       \* the instances that have been constructed
    erev,       \* revision of the EMA class that is compiled in
    ema,        \* the EMA instance: its data members
    emaArg,     \* the period and seed the EMA instance was constructed with
    emaLast,    \* the last EMA operation and its argument
    emaHist     \* the update inputs and the values current has held

maVars == <<rev, elemType, objs, heap, ub, hist, steady, copyOf, last, born>>
emaVars == <<erev, ema, emaArg, emaLast, emaHist>>
vars == <<rev, elemType, objs, heap, ub, hist, steady, copyOf, last, born,
          erev, ema, emaArg, emaLast, emaHist>>

\* "oob": an access outside the storage; "div0": a division by zero;
\* "doublefree": delete[] of a released block; "crash": the program trapped
UBKinds == {"oob", "div0", "doublefree", "crash"}
Running == "crash" \notin ub

\* ------------------------------------------------------------ arithmetic
Unit == IF elemType = "float" THEN 2 ELSE 1

\* C++ integer division: the quotient is truncated toward zero
TruncDiv(a, b) ==
    IF b = 0 THEN 0
    ELSE IF (a >= 0) = (b > 0)
         THEN (IF a >= 0 THEN a ELSE -a) \div (IF b > 0 THEN b ELSE -b)
         ELSE -((IF a >= 0 THEN a ELSE -a) \div (IF b > 0 THEN b ELSE -b))

\* a + b in a 32-bit two's complement integer: the sum wraps modulo 2^32
Add32(a, b) ==
    IF a > 0 /\ b > Int32Max - a THEN (a + Int32Min) + (b + Int32Min)
    ELSE IF a < 0 /\ b < Int32Min - a THEN (a - Int32Min) + (b - Int32Min)
    ELSE a + b

\* a - b in a 32-bit two's complement integer
Sub32(a, b) ==
    IF b < 0 /\ a > Int32Max + b THEN (a + Int32Min) - (b - Int32Min)
    ELSE IF b > 0 /\ a < Int32Min + b THEN (a - Int32Min) - (b + Int32Min)
    ELSE a - b

RECURSIVE Mul32(_, _)
\* a * n in a 32-bit two's complement integer, n >= 0
Mul32(a, n) == IF n = 0 THEN 0 ELSE Add32(Mul32(a, n - 1), a)

\* (int32_t)val : an integer T is kept, a floating T loses its fraction
ToInt32(x) == TruncDiv(x, Unit)

\* (T)(quotient)
ToT(q) == q * Unit

\* m_sum = val * m_n : the product is formed in T, then stored in int32_t
MulToSum(val, n) ==
    IF elemType = "float" THEN TruncDiv(val * n, Unit) ELSE Mul32(val, n)

RECURSIVE SeedSumA(_, _)
\* revision A: for each slot  sum += (uint32_t)data[i]
SeedSumA(n, init) ==
    IF n = 0 THEN 0 ELSE Add32(SeedSumA(n - 1, init), ToInt32(init))

RECURSIVE SumSeq(_)
SumSeq(s) == IF s = <<>> THEN 0 ELSE Head(s) + SumSeq(Tail(s))

LastN(s, k) == SubSeq(s, Len(s) - k + 1, Len(s))

\* ------------------------------------------------------------- the state
Empty == [live |-> FALSE, m_n |-> 0, m_data |-> NULL, m_index |-> 0,
          m_sum |-> 0, m_filled |-> FALSE, m_value |-> 0]

FreeBlock == [st |-> "free", cells |-> <<>>]

NoHist == [pure |-> FALSE, vals |-> <<>>]
NoSteady == [on |-> FALSE, v |-> 0, cnt |-> 0]
NoOp == [op |-> "none", dst |-> 0, src |-> 0, len |-> 0, val |-> 0]

HasFree == \E a \in Addr : heap[a].st = "free"
NewAddr == CHOOSE a \in Addr : heap[a].st = "free" /\ \A b \in Addr : b < a => heap[b].st # "free"

Cells(o) == IF objs[o].m_data = NULL THEN <<>> ELSE heap[objs[o].m_data].cells

\* copyOf[p] once instance o has been constructed, destroyed or replaced
Unlinked(p, o) == IF p = o \/ copyOf[p] = o THEN 0 ELSE copyOf[p]

\* ------------------------------------------------- MA<T>: construction
\* capacity stored by MA(len, init): revisions A and B clamp 0 to 1
Capacity(len) == IF rev = "C" THEN len ELSE IF len >= 1 THEN len ELSE 1

\* the contents new T[n] can have once MA(len, init) has run
InitCells(n, init) ==
    IF init # 0 THEN {[i \in 1..n |-> init]}
    ELSE IF rev = "A" THEN [1..n -> Garbage]
    ELSE IF rev = "B" THEN {c \in [1..n -> Garbage] : \A i \in 1..n : i * SizeofT <= n => c[i] = 0}
    ELSE {[i \in 1..n |-> 0]}

\* m_sum after MA(len, init)
InitSum(n, init) ==
    IF init = 0 THEN 0
    ELSE IF rev = "A" THEN SeedSumA(n, init)
    ELSE MulToSum(init, n)

\* m_value after MA(len, init): revision A leaves the member initialiser 0
InitValue(init) == IF rev = "A" THEN 0 ELSE init

\* MA<T>::MA(uint16_t len, T init)
Construct(o, len, init) ==
    /\ Running
    /\ ~objs[o].live
    /\ o \notin born
    /\ born' = born \cup {o}
    /\ HasFree
    /\ \E c \in InitCells(Capacity(len), init) :
         /\ heap' = [heap EXCEPT ![NewAddr] = [st |-> "live", cells |-> c]]
         /\ objs' = [objs EXCEPT ![o] =
                [live |-> TRUE, m_n |-> Capacity(len), m_data |-> NewAddr,
                 m_index |-> 0, m_sum |-> InitSum(Capacity(len), init),
                 m_filled |-> (init # 0), m_value |-> InitValue(init)]]
    /\ hist' = [hist EXCEPT ![o] = [pure |-> (init = 0), vals |-> <<>>]]
    /\ steady' = [steady EXCEPT ![o] = NoSteady]
    /\ copyOf' = [p \in Objs |-> Unlinked(p, o)]
    /\ last' = [op |-> "construct", dst |-> o, src |-> 0, len |-> len, val |-> init]
    /\ UNCHANGED <<emaVars, rev, elemType, ub>>

\* MA<T>::MA()
DefaultConstruct(o) ==
    /\ Running
    /\ rev = "C"
    /\ ~objs[o].live
    /\ o \notin born
    /\ born' = born \cup {o}
    /\ objs' = [objs EXCEPT ![o] = [Empty EXCEPT !.live = TRUE]]
    /\ hist' = [hist EXCEPT ![o] = NoHist]
    /\ steady' = [steady EXCEPT ![o] = NoSteady]
    /\ copyOf' = [p \in Objs |-> Unlinked(p, o)]
    /\ last' = [NoOp EXCEPT !.op = "default", !.dst = o]
    /\ UNCHANGED <<emaVars, rev, elemType, heap, ub>>

\* ------------------------------------------------------ MA<T>::update
\* the slot update writes, after the wrap test  if (m_index >= m_n)
WrapIndex(o) == IF objs[o].m_index >= objs[o].m_n THEN 0 ELSE objs[o].m_index
WrapFilled(o) == objs[o].m_filled \/ objs[o].m_index >= objs[o].m_n

\* m_data[m_index] lies inside the block m_data points to
InBounds(o) ==
    /\ objs[o].m_data # NULL
    /\ heap[objs[o].m_data].st = "live"
    /\ WrapIndex(o) < Len(heap[objs[o].m_data].cells)

\* m_value = m_filled ? (T)(m_sum / (int32_t)m_n) : (T)(m_sum / (int32_t)m_index)
Average(sum, filled, n, index) ==
    ToT(TruncDiv(sum, IF filled THEN n ELSE index))

\* T MA<T>::update(const T val); old is the value read from m_data[m_index],
\* q the quotient the division yields
UpdateObj(o, val, old, q) ==
    [objs[o] EXCEPT !.m_index = WrapIndex(o) + 1,
                    !.m_filled = WrapFilled(o),
                    !.m_sum = Add32(Sub32(objs[o].m_sum, ToInt32(old)), ToInt32(val)),
                    !.m_value = q]

Update(o, val, maxp) ==
    /\ Running
    /\ objs[o].live
    /\ Len(hist[o].vals) < maxp
    /\ IF InBounds(o)
       THEN LET old == heap[objs[o].m_data].cells[WrapIndex(o) + 1]
                sum == Add32(Sub32(objs[o].m_sum, ToInt32(old)), ToInt32(val))
            IN /\ objs' = [objs EXCEPT ![o] = UpdateObj(o, val, old,
                               Average(sum, WrapFilled(o), objs[o].m_n, WrapIndex(o) + 1))]
               /\ heap' = [heap EXCEPT ![objs[o].m_data].cells[WrapIndex(o) + 1] = val]
               /\ ub' = ub
       ELSE \* capacity 0: m_data[0] lies outside the storage and the divisor
            \* (int32_t)m_n is 0. The build traps (at the access through a null
            \* pointer, else at the division) and the program ends there, or it
            \* carries on with an arbitrary slot value and quotient
            \E trap \in BOOLEAN, g \in Garbage :
               /\ heap' = heap
               /\ CASE trap /\ objs[o].m_data = NULL ->
                        /\ ub' = ub \cup {"oob", "crash"}
                        /\ objs' = objs
                    [] trap /\ objs[o].m_data # NULL ->
                        /\ ub' = ub \cup {"oob", "div0", "crash"}
                        /\ objs' = objs
                    [] OTHER ->
                        /\ ub' = ub \cup {"oob", "div0"}
                        /\ objs' = [objs EXCEPT ![o] = UpdateObj(o, val, g, g)]
    /\ hist' = [hist EXCEPT ![o].vals = Append(@, val)]
    /\ steady' = [steady EXCEPT ![o] =
                    IF @.on /\ @.v = val THEN [@ EXCEPT !.cnt = @ + 1] ELSE NoSteady]
    /\ last' = [NoOp EXCEPT !.op = "update", !.dst = o, !.val = val]
    /\ UNCHANGED <<born, emaVars, rev, elemType, copyOf>>

\* ---------------------------------------------------- MA<T>::setValue
\* a setValue that stores the value in place of the window's sum
SetValueObj_SumOfOne(o, val) ==
    [objs[o] EXCEPT !.m_sum = ToInt32(val), !.m_filled = TRUE, !.m_value = val]

\* the scalar members after setValue(val)
SetValueObj(o, val) ==
    [objs[o] EXCEPT !.m_sum = MulToSum(val, objs[o].m_n),
                    !.m_filled = TRUE,
                    !.m_value = val]

SetValue(o, val) ==
    /\ Running
    /\ rev # "A"
    /\ objs[o].live
    /\ objs' = [objs EXCEPT ![o] = SetValueObj(o, val)]
    /\ heap' = IF objs[o].m_data = NULL THEN heap
               ELSE [heap EXCEPT ![objs[o].m_data].cells =
                        [i \in 1..Len(@) |-> IF i <= objs[o].m_n THEN val ELSE @[i]]]
    /\ hist' = [hist EXCEPT ![o].pure = FALSE]
    /\ steady' = [steady EXCEPT ![o] = [on |-> TRUE, v |-> val, cnt |-> 0]]
    /\ last' = [NoOp EXCEPT !.op = "setValue", !.dst = o, !.val = val]
    /\ UNCHANGED <<born, emaVars, rev, elemType, ub, copyOf>>

\* -------------------------------------------------------- MA<T>::~MA
\* delete[] p
Release(h, p) ==
    IF p = NULL THEN h ELSE [h EXCEPT ![p] = FreeBlock]

\* delete[] of a block that is not allocated any more
BadRelease(p) == p # NULL /\ heap[p].st # "live"

Destroy(o) ==
    /\ Running
    /\ objs[o].live
    /\ heap' = Release(heap, objs[o].m_data)
    /\ ub' = IF BadRelease(objs[o].m_data) THEN ub \cup {"doublefree"} ELSE ub
    /\ objs' = [objs EXCEPT ![o] = Empty]
    /\ hist' = [hist EXCEPT ![o] = NoHist]
    /\ steady' = [steady EXCEPT ![o] = NoSteady]
    /\ copyOf' = [p \in Objs |-> Unlinked(p, o)]
    /\ last' = [NoOp EXCEPT !.op = "destroy", !.dst = o]
    /\ UNCHANGED <<born, emaVars, rev, elemType>>

\* ------------------------------------------- MA<T>: copy, move, swap
\* a copy that keeps the pointer of the instance it copies
CopyObj_Shallow(src, a) == objs[src]

\* the members of MA(const MA<T>& other): m_data(new T[other.m_n]),
\* every other member taken from other
CopyObj(src, a) == [objs[src] EXCEPT !.m_data = a]

\* memcpy(m_data, other.m_data, other.m_n * sizeof(T))
CopyCells(src) == [i \in 1..objs[src].m_n |-> Cells(src)[i]]

\* a moved-from instance that keeps its pointer
MovedFrom_KeepData(src) == [Empty EXCEPT !.live = TRUE, !.m_data = objs[src].m_data]

\* the source after std::exchange of every member
MovedFrom(src) == [Empty EXCEPT !.live = TRUE]

\* MA<T>::MA(const MA<T>& other)
CopyConstruct(dst, src) ==
    /\ Running
    /\ rev = "C"
    /\ dst # src
    /\ ~objs[dst].live
    /\ dst \notin born
    /\ born' = born \cup {dst}
    /\ objs[src].live
    /\ HasFree
    /\ heap' = [heap EXCEPT ![NewAddr] = [st |-> "live", cells |-> CopyCells(src)]]
    /\ objs' = [objs EXCEPT ![dst] = CopyObj(src, NewAddr)]
    /\ hist' = [hist EXCEPT ![dst] = hist[src]]
    /\ steady' = [steady EXCEPT ![dst] = steady[src]]
    /\ copyOf' = [p \in Objs |-> IF p = dst THEN src ELSE Unlinked(p, dst)]
    /\ last' = [NoOp EXCEPT !.op = "copyConstruct", !.dst = dst, !.src = src]
    /\ UNCHANGED <<emaVars, rev, elemType, ub>>

\* MA<T>::MA(MA<T>&& other)
MoveConstruct(dst, src) ==
    /\ Running
    /\ rev = "C"
    /\ dst # src
    /\ ~objs[dst].live
    /\ dst \notin born
    /\ born' = born \cup {dst}
    /\ objs[src].live
    /\ objs' = [objs EXCEPT ![dst] = objs[src], ![src] = MovedFrom(src)]
    /\ hist' = [hist EXCEPT ![dst] = hist[src], ![src] = NoHist]
    /\ steady' = [steady EXCEPT ![dst] = steady[src], ![src] = NoSteady]
    /\ copyOf' = [p \in Objs |-> 0]
    /\ last' = [NoOp EXCEPT !.op = "moveConstruct", !.dst = dst, !.src = src]
    /\ UNCHANGED <<emaVars, rev, elemType, heap, ub>>

\* MA<T>& MA<T>::operator=(const MA<T>& other):
\* MA<T>(other).swap(*this), then the temporary is destroyed
CopyAssign(dst, src) ==
    /\ Running
    /\ rev = "C"
    /\ objs[dst].live
    /\ objs[src].live
    /\ dst = src \/ HasFree
    /\ IF dst = src
       THEN \* if (this != &other) fails: nothing is done
            UNCHANGED vars
       ELSE /\ objs' = [objs EXCEPT ![dst] = CopyObj(src, NewAddr)]
            /\ heap' = Release([heap EXCEPT ![NewAddr] =
                                   [st |-> "live", cells |-> CopyCells(src)]],
                               objs[dst].m_data)
            /\ ub' = IF BadRelease(objs[dst].m_data) THEN ub \cup {"doublefree"} ELSE ub
            /\ copyOf' = [p \in Objs |-> IF p = dst THEN src ELSE Unlinked(p, dst)]
            /\ hist' = [hist EXCEPT ![dst] = hist[src]]
            /\ steady' = [steady EXCEPT ![dst] = steady[src]]
            /\ last' = [NoOp EXCEPT !.op = "copyAssign", !.dst = dst, !.src = src]
            /\ UNCHANGED <<born, emaVars, rev, elemType>>

\* MA<T>& MA<T>::operator=(MA<T>&& other)
MoveAssign(dst, src) ==
    /\ Running
    /\ rev = "C"
    /\ objs[dst].live
    /\ objs[src].live
    /\ IF dst = src
       THEN \* if (this == &other) return *this;
            UNCHANGED vars
       ELSE /\ objs' = [objs EXCEPT ![dst] = objs[src], ![src] = MovedFrom(src)]
            /\ hist' = [hist EXCEPT ![dst] = hist[src], ![src] = NoHist]
            /\ steady' = [steady EXCEPT ![dst] = steady[src], ![src] = NoSteady]
            /\ copyOf' = [p \in Objs |-> 0]
            /\ last' = [NoOp EXCEPT !.op = "moveAssign", !.dst = dst, !.src = src]
            /\ UNCHANGED <<born, emaVars, rev, elemType, heap, ub>>

\* void MA<T>::swap(MA<T>& other)
Swap(a, b) ==
    /\ Running
    /\ rev = "C"
    /\ a # b
    /\ objs[a].live
    /\ objs[b].live
    /\ objs' = [objs EXCEPT ![a] = objs[b], ![b] = objs[a]]
    /\ hist' = [hist EXCEPT ![a] = hist[b], ![b] = hist[a]]
    /\ steady' = [steady EXCEPT ![a] = steady[b], ![b] = steady[a]]
    /\ copyOf' = [p \in Objs |-> 0]
    /\ last' = [NoOp EXCEPT !.op = "swap", !.dst = a, !.src = b]
    /\ UNCHANGED <<born, emaVars, rev, elemType, heap, ub>>

\* ----------------------------------------------------------------- EMA
\* A float is kept as a fraction <<numerator, denominator>> in lowest terms;
\* for the periods and samples above every float operation is exact.
RECURSIVE Gcd(_, _)
Gcd(a, b) == IF b = 0 THEN a ELSE Gcd(b, a % b)

Abs(x) == IF x < 0 THEN -x ELSE x

Frac(a, b) ==
    LET g == Gcd(Abs(a), Abs(b))
        sgn == IF b < 0 THEN -1 ELSE 1
    IN <<(sgn * a) \div g, (sgn * b) \div g>>

FInt(i) == <<i, 1>>
FAdd(x, y) == Frac(x[1] * y[2] + y[1] * x[2], x[2] * y[2])
FSub(x, y) == Frac(x[1] * y[2] - y[1] * x[2], x[2] * y[2])
FMul(x, y) == Frac(x[1] * y[1], x[2] * y[2])

\* a smoothing constant with numerator 1 in place of 2
SmoothingK_Numerator1(n) == Frac(1, n + 1)

\* const float k = 2.0 / (n + 1)
SmoothingK(n) == Frac(2, n + 1)

\* val * k + value[1] * (1.0 - k)
Smooth(val, prev, n) ==
    FAdd(FMul(val, SmoothingK(n)), FMul(prev, FSub(FInt(1), SmoothingK(n))))

NoEma == [live |-> FALSE, n |-> 0, values |-> <<FInt(0), FInt(0), FInt(0)>>]
NoEmaOp == [op |-> "none", val |-> 0]

\* what is remembered of an EMA instance: ins, the inputs of its updates; set,
\* whether setValue was called; all, the seed and each update's result;
\* since, the same from the last setValue on
NoEmaHist == [ins |-> <<>>, set |-> FALSE, all |-> <<>>, since |-> <<>>]
SeededHist(seed) ==
    [ins |-> <<>>, set |-> FALSE, all |-> <<FInt(seed)>>, since |-> <<FInt(seed)>>]

\* an update that forgets  value[2] = value[1]
EmaShift_SkipOldest(v, cur) == <<cur, v[1], v[3]>>

\* value[2] = value[1]; value[1] = value[0]; value[0] = cur
EmaShift(v, cur) == <<cur, v[1], v[2]>>

\* the member n after EMA(int n, float val): revision 1 assigns the
\* parameter to itself and leaves the member as it was
StoredPeriod(period) == IF erev = 1 THEN GarbageN ELSE {period}

\* EMA::EMA(int n, float val)
EmaConstruct(period, seed) ==
    /\ ~ema.live
    /\ \E n \in StoredPeriod(period) :
         ema' = [live |-> TRUE, n |-> n,
                 values |-> <<FInt(seed), FInt(seed), FInt(seed)>>]
    /\ emaArg' = [period |-> period, seed |-> seed, updates |-> 0]
    /\ emaLast' = [op |-> "construct", val |-> seed]
    /\ emaHist' = SeededHist(seed)
    /\ UNCHANGED <<maVars, erev>>

\* EMA::EMA()
EmaDefault ==
    /\ ~ema.live
    /\ ema' = [live |-> TRUE, n |-> 1, values |-> <<FInt(0), FInt(0), FInt(0)>>]
    /\ emaArg' = [period |-> 1, seed |-> 0, updates |-> 0]
    /\ emaLast' = [op |-> "default", val |-> 0]
    /\ emaHist' = SeededHist(0)
    /\ UNCHANGED <<maVars, erev>>

\* EMA::update(float val)
EmaUpdate(val) ==
    /\ ema.live
    /\ emaArg.updates < MaxEmaUpdates
    /\ ema' = [ema EXCEPT !.values =
                 EmaShift(ema.values, Smooth(FInt(val), ema.values[1], ema.n))]
    /\ emaArg' = [emaArg EXCEPT !.updates = @ + 1]
    /\ emaLast' = [op |-> "update", val |-> val]
    /\ emaHist' = [emaHist EXCEPT
                      !.ins = Append(@, val),
                      !.all = Append(@, Smooth(FInt(val), ema.values[1], ema.n)),
                      !.since = Append(@, Smooth(FInt(val), ema.values[1], ema.n))]
    /\ UNCHANGED <<maVars, erev>>

\* void EMA::setValue(const float value)
EmaSetValue(val) ==
    /\ ema.live
    /\ erev = 2
    /\ ema' = [ema EXCEPT !.values = <<FInt(val), FInt(val), FInt(val)>>]
    /\ emaLast' = [op |-> "setValue", val |-> val]
    /\ emaHist' = [emaHist EXCEPT !.set = TRUE, !.since = <<FInt(val)>>]
    /\ UNCHANGED <<maVars, erev, emaArg>>

\* the EMA instance goes out of scope
EmaDestroy ==
    /\ ema.live
    /\ ema' = NoEma
    /\ emaArg' = [period |-> 0, seed |-> 0, updates |-> 0]
    /\ emaLast' = [op |-> "destroy", val |-> 0]
    /\ emaHist' = NoEmaHist
    /\ UNCHANGED <<maVars, erev>>

EmaValue == ema.values[1]
EmaSlope == FSub(ema.values[1], ema.values[2])
EmaCurve == FSub(FSub(ema.values[1], ema.values[2]), FSub(ema.values[2], ema.values[3]))

\* --------------------------------------------- specification of one MA
TVals == IF elemType = "float" THEN FloatVals ELSE IntVals

InitCommon ==
    /\ objs = [o \in Objs |-> Empty]
    /\ heap = [a \in Addr |-> FreeBlock]
    /\ ub = {}
    /\ copyOf = [o \in Objs |-> 0]
    /\ hist = [o \in Objs |-> NoHist]
    /\ steady = [o \in Objs |-> NoSteady]
    /\ last = NoOp
    /\ born = {}

InitNoEma ==
    /\ erev = 2
    /\ ema = NoEma
    /\ emaArg = [period |-> 0, seed |-> 0, updates |-> 0]
    /\ emaLast = NoEmaOp
    /\ emaHist = NoEmaHist

Init ==
    /\ rev \in Revs
    /\ elemType = "int"
    /\ InitCommon
    /\ InitNoEma

Next ==
    \/ \E len \in 0..MaxLen, init \in TVals \cup {0} : Construct(1, len, init)
    \/ DefaultConstruct(1)
    \/ \E val \in TVals : Update(1, val, MaxPush)
    \/ \E val \in TVals : SetValue(1, val)
    \/ Destroy(1)

Spec == Init /\ [][Next]_vars

\* ------------------------------------- specification of an MA<float>
InitFloat ==
    /\ rev = "C"
    /\ elemType = "float"
    /\ InitCommon
    /\ InitNoEma

SpecFloat == InitFloat /\ [][Next]_vars

\* ------------------------------ specification of several MA instances
OwnVals == {2}                   \* values pushed in the ownership specification
OwnSeeds == {0, 1}               \* seeds and setValue arguments there

InitOwn ==
    /\ rev = "C"
    /\ elemType = "int"
    /\ InitCommon
    /\ InitNoEma

NextOwn ==
    \/ \E o \in Objs, len \in 0..OwnMaxLen, init \in OwnSeeds : Construct(o, len, init)
    \/ \E o \in Objs : DefaultConstruct(o)
    \/ \E o \in Objs, val \in OwnVals : Update(o, val, OwnMaxPush)
    \/ \E o \in Objs, val \in OwnSeeds \ {0} : SetValue(o, val)
    \/ \E o \in Objs : Destroy(o)
    \/ \E dst \in Objs, src \in Objs : CopyConstruct(dst, src)
    \/ \E dst \in Objs, src \in Objs : MoveConstruct(dst, src)
    \/ \E dst \in Objs, src \in Objs : CopyAssign(dst, src)
    \/ \E dst \in Objs, src \in Objs : MoveAssign(dst, src)
    \/ \E a \in Objs, b \in Objs : a < b /\ Swap(a, b)

SpecOwn == InitOwn /\ [][NextOwn]_vars

\* ------------------------------------------- specification of the EMA
InitEma ==
    /\ rev = "C"
    /\ elemType = "int"
    /\ InitCommon
    /\ erev \in EmaRevs
    /\ ema = NoEma
    /\ emaArg = [period |-> 0, seed |-> 0, updates |-> 0]
    /\ emaLast = NoEmaOp
    /\ emaHist = NoEmaHist

NextEma ==
    \/ \E period \in Periods, seed \in EmaVals : EmaConstruct(period, seed)
    \/ EmaDefault
    \/ \E val \in EmaVals : EmaUpdate(val)
    \/ \E val \in EmaVals : EmaSetValue(val)
    \/ EmaDestroy

SpecEma == InitEma /\ [][NextEma]_vars

\* the second revision of the EMA alone
InitEma2 ==
    /\ InitEma
    /\ erev = 2

SpecEma2 == InitEma2 /\ [][NextEma]_vars

\* --------------------------- specification of an MA<int32_t> of large values
WideVals == {1, 1500000000}      \* values fed to an MA<int32_t>

InitWide ==
    /\ rev = "C"
    /\ elemType = "int"
    /\ InitCommon
    /\ InitNoEma

NextWide ==
    \/ \E len \in 1..MaxLen, init \in WideVals \cup {0} : Construct(1, len, init)
    \/ \E val \in WideVals : Update(1, val, MaxPush)
    \/ \E val \in WideVals : SetValue(1, val)
    \/ Destroy(1)

SpecWide == InitWide /\ [][NextWide]_vars

\* ------------------------------------------------------------- claims
\* the mean of a sequence of values of an integer T, truncated toward zero
Mean(s) == TruncDiv(SumSeq(s), Len(s))

\* C1: once an instance constructed without a seed has had at least capacity
\* updates (and nothing else), its value is the truncated mean of the last
\* capacity values pushed
C1_WindowCorrect ==
    \A o \in Objs :
        (/\ objs[o].live
         /\ hist[o].pure
         /\ objs[o].m_n >= 1
         /\ Len(hist[o].vals) >= objs[o].m_n)
        => objs[o].m_value = Mean(LastN(hist[o].vals, objs[o].m_n))

\* C2: while an instance constructed without a seed has had k <= capacity
\* updates (and nothing else), its value is the truncated mean of the k
\* values pushed
C2_PartialFillCorrect ==
    \A o \in Objs :
        (/\ objs[o].live
         /\ hist[o].pure
         /\ Len(hist[o].vals) >= 1
         /\ Len(hist[o].vals) <= objs[o].m_n)
        => objs[o].m_value = Mean(hist[o].vals)

\* C3: the parameterised constructor never leaves capacity 0 or a block of
\* no elements; a requested 0 becomes 1
C3_CapacityClamped ==
    last.op = "construct" =>
        /\ objs[last.dst].m_n = (IF last.len = 0 THEN 1 ELSE last.len)
        /\ Len(Cells(last.dst)) >= 1

\* C4: right after MA(len, init) with init # 0 the value is init, every slot
\* holds init, the sum is init * capacity and filled is set
C4_SeededConstruct ==
    (last.op = "construct" /\ last.val # 0) =>
        /\ objs[last.dst].m_value = last.val
        /\ \A i \in 1..Len(Cells(last.dst)) : Cells(last.dst)[i] = last.val
        /\ Len(Cells(last.dst)) = objs[last.dst].m_n
        /\ objs[last.dst].m_sum = last.val * objs[last.dst].m_n
        /\ objs[last.dst].m_filled

ExactMean(s) == SumSeq(s) \div Len(s)

\* C9: for a floating T the average keeps its fraction: while an MA<float>
\* constructed without a seed has had k <= capacity updates, its value is
\* the exact mean of the k values pushed (1 then 2 give 1.5, 0.5 gives 0.5)
C9_FloatDivision ==
    \A o \in Objs :
        (/\ elemType = "float"
         /\ objs[o].live
         /\ hist[o].pure
         /\ Len(hist[o].vals) >= 1
         /\ Len(hist[o].vals) <= objs[o].m_n
         /\ SumSeq(hist[o].vals) % Len(hist[o].vals) = 0)
        => objs[o].m_value = ExactMean(hist[o].vals)

\* C6: a copy gets storage of its own with the contents and the scalar
\* members of the original, and an update or setValue of one instance leaves
\* the members and the storage of every other instance as they were
CellsNext(o) == IF objs'[o].m_data = NULL THEN <<>> ELSE heap'[objs'[o].m_data].cells

C6_Step ==
    /\ (last'.op \in {"copyConstruct", "copyAssign"} /\ last'.dst # last'.src) =>
          /\ objs'[last'.dst].m_data # NULL
          /\ objs'[last'.dst].m_data # objs'[last'.src].m_data
          /\ CellsNext(last'.dst) = CellsNext(last'.src)
          /\ [objs'[last'.dst] EXCEPT !.m_data = NULL] = [objs'[last'.src] EXCEPT !.m_data = NULL]
          /\ objs'[last'.src] = objs[last'.src]
          /\ CellsNext(last'.src) = Cells(last'.src)
    /\ last'.op \in {"update", "setValue"} =>
          \A p \in Objs \ {last'.dst} :
              /\ objs'[p] = objs[p]
              /\ CellsNext(p) = Cells(p)

C6_CopyIndependent == [][C6_Step]_vars

\* C6 witness: an instance and its copy, one of them updated since, so that
\* the two hold different contents
C6_Witness ==
    \E o \in Objs, p \in Objs :
        /\ copyOf[p] = o
        /\ objs[o].live /\ objs[p].live
        /\ last.op = "update"
        /\ last.dst \in {o, p}
        /\ objs[o].m_n >= 1
        /\ Cells(o) # Cells(p)
        /\ objs[o].m_value # objs[p].m_value

\* C7: a move construction or move assignment from another instance gives
\* the destination the source's storage and members as they were, and leaves
\* the source in the default-constructed state
C7_Step ==
    (last'.op \in {"moveConstruct", "moveAssign"} /\ last'.dst # last'.src) =>
        /\ objs'[last'.dst] = objs[last'.src]
        /\ CellsNext(last'.dst) = Cells(last'.src)
        /\ objs'[last'.src] = [Empty EXCEPT !.live = TRUE]

C7_MoveCorrect == [][C7_Step]_vars

\* C7 witness: a move assignment has just handed over a buffer that had
\* been written to
C7_Witness ==
    /\ last.op = "moveAssign"
    /\ last.dst # last.src
    /\ objs[last.dst].m_n >= 1
    /\ objs[last.dst].m_index >= 1
    /\ objs[last.dst].m_value # 0
    /\ objs[last.src].m_data = NULL

\* the live instances that own block a
Owners(a) == {o \in Objs : objs[o].live /\ objs[o].m_data = a}

\* C8: no block is owned by two live instances, no block is released twice,
\* and once every instance is destroyed no block is still allocated
C8_ExactlyOnce ==
    /\ \A a \in Addr : Cardinality(Owners(a)) <= 1
    /\ "doublefree" \notin ub
    /\ (\A o \in Objs : ~objs[o].live) => \A a \in Addr : heap[a].st = "free"

\* C10: the EMA constructor stores the period it is given, and every update
\* computes value*k + previous*(1-k) with k = 2/(period+1) for that period
C10_PeriodStored ==
    /\ ema.live => ema.n = emaArg.period
    /\ (ema.live /\ emaLast.op = "update") =>
          ema.values[1] = Smooth(FInt(emaLast.val), ema.values[2], emaArg.period)

\* the instance was constructed with period 1 and seed 0 and has since had
\* exactly the updates ins and no setValue
Scenario(ins) ==
    /\ ema.live
    /\ emaArg.period = 1
    /\ emaArg.seed = 0
    /\ ~emaHist.set
    /\ emaHist.ins = ins

\* C11 as stated: with period 1 and seed 0, update(5) gives value 5, slope 5
\* and curve 0, and a following update(10) gives value 10, slope 5, curve 0
C11_ScenarioAsStated ==
    /\ Scenario(<<5>>) =>
          /\ EmaValue = FInt(5)
          /\ EmaSlope = FInt(5)
          /\ EmaCurve = FInt(0)
    /\ Scenario(<<5, 10>>) =>
          /\ EmaValue = FInt(10)
          /\ EmaSlope = FInt(5)
          /\ EmaCurve = FInt(0)

\* C11 amended: with period 1 and seed 0, update(5) gives value 5, slope 5
\* and curve 5 = (5 - 0) - (0 - 0), and a following update(10) gives value
\* 10, slope 5 and curve 0
C11_Scenario ==
    /\ Scenario(<<5>>) =>
          /\ EmaValue = FInt(5)
          /\ EmaSlope = FInt(5)
          /\ EmaCurve = FInt(5)
    /\ Scenario(<<5, 10>>) =>
          /\ EmaValue = FInt(10)
          /\ EmaSlope = FInt(5)
          /\ EmaCurve = FInt(0)

\* C11 witness: the scenario has run to its second update, through the
\* constructor that takes the period
C11_Witness ==
    /\ Scenario(<<5, 10>>)
    /\ emaLast = [op |-> "update", val |-> 10]
    /\ ema.n = 1
    /\ ema.values = <<FInt(10), FInt(5), FInt(0)>>

\* the sum of the slots that hold pushed values: all of them once the
\* window is filled, the first m_index before that
RECURSIVE SumCells(_, _)
SumCells(c, k) == IF k = 0 THEN 0 ELSE c[k] + SumCells(c, k - 1)

Buffered(o) ==
    IF objs[o].m_filled \/ objs[o].m_index > Len(Cells(o))
    THEN Len(Cells(o)) ELSE objs[o].m_index

\* C12: the running sum is the exact sum of the buffered values, and a
\* construction with initial value 0 leaves every slot at 0
C12_RunningSum ==
    /\ \A o \in Objs :
          objs[o].live => objs[o].m_sum = SumCells(Cells(o), Buffered(o))
    /\ (last.op = "construct" /\ last.val = 0) =>
          \A i \in 1..Len(Cells(last.dst)) : Cells(last.dst)[i] = 0

\* the value r held k updates before its last entry, or its first entry
\* (the seed) when it has had fewer updates
Ago(r, k) == IF Len(r) - k >= 1 THEN r[Len(r) - k] ELSE r[1]

\* after an update: previousPrevious is what current held two updates ago
\* in r, the slope is the difference of the last two entries of r and the
\* curve their second difference
HistoryIs(r) ==
    /\ ema.values[3] = Ago(r, 2)
    /\ EmaSlope = FSub(Ago(r, 0), Ago(r, 1))
    /\ EmaCurve = FSub(FSub(Ago(r, 0), Ago(r, 1)), FSub(Ago(r, 1), Ago(r, 2)))

\* C13 as stated: after each update, whatever setValue calls came between,
\* previousPrevious is the value current held two updates ago (the seed
\* when there were fewer than two), the slope is the difference of the two
\* most recent update results and the curve their second difference
C13_HistoryAsStated ==
    (ema.live /\ emaLast.op = "update") => HistoryIs(emaHist.all)

\* C13 amended: the same, with the history starting anew at each setValue:
\* the values are counted from the last setValue (or the construction), and
\* its value stands in when fewer than two updates have come since
C13_History ==
    (ema.live /\ emaLast.op = "update") => HistoryIs(emaHist.since)

\* C13 witness: an update, a setValue, then two updates, the three slots
\* all different
C13_Witness ==
    /\ ema.live
    /\ emaLast.op = "update"
    /\ emaHist.set
    /\ Len(emaHist.since) = 3
    /\ Len(emaHist.all) = 4
    /\ emaHist.all[2] # emaHist.since[1]
    /\ ema.values[1] # ema.values[2]
    /\ ema.values[2] # ema.values[3]
    /\ ema.values[1] # ema.values[3]

\* C14: no operation on any instance, a default-constructed or moved-from
\* one included, reads or writes a slot outside its storage or divides by
\* zero
C14_EmptySafe ==
    /\ "oob" \notin ub
    /\ "div0" \notin ub

\* a + b lies in the range of a 32-bit integer
FitsAdd(a, b) ==
    /\ b > 0 => a <= Int32Max - b
    /\ b < 0 => a >= Int32Min - b

\* the sum of the first k slots of c lies in the range of a 32-bit integer
\* (the slots of one sign, or small beside one large value, as WideVals are)
RECURSIVE SumFits(_, _)
SumFits(c, k) ==
    \/ k = 0
    \/ /\ SumFits(c, k - 1)
       /\ FitsAdd(SumCells(c, k - 1), c[k])

\* C15: for an integer T the running sum never overflows: the mathematical
\* sum of the buffered values is representable in the accumulator, and the
\* accumulator holds it
C15_NoOverflow ==
    \A o \in Objs :
        (objs[o].live /\ objs[o].m_n >= 1) =>
            /\ SumFits(Cells(o), Buffered(o))
            /\ objs[o].m_sum = SumCells(Cells(o), Buffered(o))

====
